---- MODULE Spec2Model ----
(***************************************************************************)
(* Indexer-status subscriptions of torii-grpc                               *)
(* (crates/torii/grpc/src/server/subscriptions/indexer.rs).                 *)
(*                                                                          *)
(* IndexerManager keeps a registry  subscribers : id -> IndexerSubscriber   *)
(* behind a tokio RwLock.  add_subscriber reads the contracts table, sends  *)
(* one priming response per row on a fresh capacity-1 mpsc channel, then    *)
(* inserts the subscriber under a random usize id and returns the receiver. *)
(* Service::poll takes events from the broker stream and spawns one         *)
(* publish_updates task per event; the task parses the address, walks the   *)
(* registry under the read lock, sends to every matching subscriber, and    *)
(* afterwards removes the ids whose send failed.                            *)
(***************************************************************************)
EXTENDS Integers, Sequences, FiniteSets, TLC

\* ------------------------------------------------------------------ bounds
MaxSubs == 2        \* number of add_subscriber calls explored
MaxEvents == 2      \* number of broker events explored
NumIds == 2         \* size of the id space standing for usize

\* ---------------------------------------------------------------- constants
Capacity == 1       \* channel(1)
BytesLen == 32      \* Felt::to_bytes_be yields [u8; 32]

Calls == 1..MaxSubs
Tasks == 1..MaxEvents
Ids == 1..NumIds
NoId == 0

\* Felt values used as contract addresses; ZERO is Felt::ZERO.
ZERO == 0
Felts == {0, 1, 2}
ParseErr == -1

\* contract_address strings a broker event may carry.
EventAddrs == {"0x1", "not-hex"}

\* Felt::from_str on the strings above (Err for a string that is no number).
FromStrLenient(s) ==
    CASE s = "0x1" -> 1
      [] s = "0x2" -> 2
      [] s = "0x0" -> 0
      [] OTHER -> ZERO

FromStr(s) ==
    CASE s = "0x1" -> 1
      [] s = "0x2" -> 2
      [] s = "0x0" -> 0
      [] OTHER -> ParseErr

\* format!("{:#x}", felt)
FmtHex(f) ==
    CASE f = 0 -> "0x0"
      [] f = 1 -> "0x1"
      [] f = 2 -> "0x2"

\* Felt::to_bytes_be().to_vec(): 32 big-endian bytes.
ToBytesBe(f) == [i \in 1..BytesLen |-> IF i = BytesLen THEN f ELSE 0]

\* ------------------------------------------------------------------- store
\* A row of the contracts table (columns id, head, tps, last_block_timestamp,
\* contract_address).
Row(k) ==
    [id |-> k, contract_address |-> k,
     head |-> IF k = "0x1" THEN 7 ELSE 9,
     tps |-> IF k = "0x1" THEN 3 ELSE 4,
     last_block_timestamp |-> IF k = "0x1" THEN 1700 ELSE 1800]

\* Table contents explored, in row order.
Stores == {<< >>, <<Row("0x1")>>, <<Row("0x1"), Row("0x2")>>}

RECURSIVE SelectWhere(_, _)
SelectWhere(rows, key) ==
    IF rows = << >> THEN << >>
    ELSE IF Head(rows).id = key
         THEN <<Head(rows)>> \o SelectWhere(Tail(rows), key)
         ELSE SelectWhere(Tail(rows), key)

\* The query add_subscriber runs for a filter.
QueryAll(rows, contract_address) == rows

Query(rows, contract_address) ==
    IF contract_address # ZERO
    THEN SelectWhere(rows, FmtHex(contract_address))
    ELSE rows

\* The broker event number n carrying address string s.
Event(n, s) ==
    [head |-> 10 + n, tps |-> 5, last_block_timestamp |-> 2000 + n,
     contract_address |-> s]

\* SubscribeIndexerResponse built from a record and an address.
Response(rec, addr) ==
    [head |-> rec.head, tps |-> rec.tps,
     last_block_timestamp |-> rec.last_block_timestamp,
     contract_address |-> ToBytesBe(addr)]

VARIABLES
    store,        \* the contracts table
    subscribers,  \* IndexerManager.subscribers: id -> IndexerSubscriber
    lock,         \* the RwLock: holders of the read lock and the FIFO wait queue
    call,         \* per add_subscriber call: position and locals
    sent,         \* per channel: every item ever enqueued (history), in order
    queued,       \* per channel: items enqueued and not yet received
    rxClosed,     \* per channel: the receiver has been dropped
    task,         \* per spawned publish_updates task: position and locals
    nEvents,      \* events taken from the broker so far
    brokerEnded,  \* the broker stream has yielded None
    pollResult    \* what Service::poll last returned

vars == <<store, subscribers, lock, call, sent, queued, rxClosed, task,
          nEvents, brokerEnded, pollResult>>


\* ------------------------------------------------------------ initial state
NoCall == [pc |-> "idle", id |-> NoId, contract_address |-> ZERO, contracts |-> << >>]

NoTask ==
    [pc |-> "unspawned", update |-> Event(0, ""), contract_address |-> ParseErr,
     todo |-> {}, cur |-> NoId, closed_stream |-> << >>, result |-> "none",
     \* history: drained, since the task was spawned every add_subscriber call
     \* begun had ended with its receiver dropped; dead, the registered
     \* subscribers whose receiver was already dropped when the registry was read
     \* racing, the add_subscriber calls with a filter for the event's contract
     \* that were between their store read and their insert when the event was
     \* taken from the broker and, once the registry has been read, those of
     \* them that still were
     drained |-> FALSE, dead |-> {}, racing |-> {}]

Init ==
    /\ store \in Stores
    /\ subscribers = [i \in {} |-> 0]
    /\ lock = [readers |-> {}, waiters |-> << >>]
    /\ call = [c \in Calls |-> NoCall]
    /\ sent = [c \in Calls |-> << >>]
    /\ queued = [c \in Calls |-> 0]
    /\ rxClosed = [c \in Calls |-> FALSE]
    /\ task = [t \in Tasks |-> NoTask]
    /\ nEvents = 0
    /\ brokerEnded = FALSE
    /\ pollResult = "NotPolled"

\* ---------------------------------------------------------------- registry
Registered(c) == \E i \in DOMAIN subscribers : subscribers[i].sender = c

RegisteredCalls == {subscribers[i].sender : i \in DOMAIN subscribers}

\* HashMap::insert: the entry under id is set, replacing any entry already there.
MapInsert(m, id, sub) ==
    [i \in (DOMAIN m) \cup {id} |-> IF i = id THEN sub ELSE m[i]]

\* HashMap::remove: the entry under id is deleted when present.
MapRemoveAll(m, id) == [i \in {} |-> m[i]]

MapRemove(m, id) == [i \in (DOMAIN m) \ {id} |-> m[i]]

\* tokio RwLock (fair): a read lock is granted at once when nobody waits, a
\* write lock when nobody holds a read lock and nobody waits; otherwise the
\* request joins the FIFO queue.  The write lock is never held across an await
\* here, so only read holders are state.
Waiter(kind, n) == [who |-> kind, n |-> n]

CanRead == lock.waiters = << >>

CanWrite == lock.readers = {} /\ lock.waiters = << >>

AtHead(w) == lock.waiters # << >> /\ Head(lock.waiters) = w

Enqueue(w) == [lock EXCEPT !.waiters = Append(@, w)]

\* ----------------------------------------------------------- add_subscriber
\* Lines 44-59: a fresh id and channel, then the store read succeeds.
BeginCount == Cardinality({c \in Calls : call[c].pc # "idle"})

\* The ids in use by the calls so far.
UsedIds == {call[c].id : c \in Calls} \ {NoId}

\* rand::thread_rng().gen::<usize>(): any id, one already drawn included.  Ids
\* are opaque, so of the ids never drawn only the smallest is explored.
GenId(id) == id \in Ids /\ id <= Cardinality(UsedIds) + 1

Undrain == [t \in Tasks |-> [task[t] EXCEPT !.drained = FALSE]]

Subscribe(c, contract_address, id) ==
    /\ call[c].pc = "idle"
    /\ c = BeginCount + 1
    /\ GenId(id)
    /\ task' = Undrain
    /\ call' = [call EXCEPT ![c] =
                  [pc |-> "prime", id |-> id, contract_address |-> contract_address,
                   contracts |-> Query(store, contract_address)]]
    /\ UNCHANGED <<store, subscribers, lock, sent, queued, rxClosed,
                   nEvents, brokerEnded, pollResult>>

\* Lines 53-58: the store read fails and `?` returns the error; sender and
\* receiver are dropped with the call.
StoreErrorAlsoRegisters(c, contract_address, id) ==
    /\ call[c].pc = "idle"
    /\ c = BeginCount + 1
    /\ GenId(id)
    /\ call' = [call EXCEPT ![c] = [NoCall EXCEPT !.pc = "failed"]]
    /\ rxClosed' = [rxClosed EXCEPT ![c] = TRUE]
    /\ subscribers' = MapInsert(subscribers, id,
                                [contract_address |-> contract_address, sender |-> c])
    /\ UNCHANGED <<store, lock, sent, queued, task, nEvents, brokerEnded, pollResult>>

\* The error is returned before anything is sent or inserted, so the id and the
\* filter of a failed call are not kept.
SubscribeStoreError(c, contract_address, id) ==
    /\ call[c].pc = "idle"
    /\ c = BeginCount + 1
    /\ GenId(id)
    /\ call' = [call EXCEPT ![c] = [NoCall EXCEPT !.pc = "failed"]]
    /\ rxClosed' = [rxClosed EXCEPT ![c] = TRUE]
    /\ UNCHANGED <<store, subscribers, lock, sent, queued, task,
                   nEvents, brokerEnded, pollResult>>

\* Line 67: the address put in a priming item is the `contract_address`
\* argument of add_subscriber, not the row's `contract.contract_address`.
PrimingAddressOfRow(contract_address, contract) == FromStr(contract.contract_address)

PrimingAddress(contract_address, contract) == contract_address

\* Lines 61-70: one iteration of the priming loop.  The receiver is a local of
\* the call, so the send can only wait for capacity, never fail.
PrimeSend(c) ==
    /\ call[c].pc = "prime"
    /\ call[c].contracts # << >>
    /\ queued[c] < Capacity
    /\ sent' = [sent EXCEPT ![c] =
                  Append(@, [resp |-> Response(Head(call[c].contracts),
                                               PrimingAddress(call[c].contract_address,
                                                              Head(call[c].contracts))),
                             from |-> 0])]
    /\ queued' = [queued EXCEPT ![c] = @ + 1]
    /\ call' = [call EXCEPT ![c].contracts = Tail(@)]
    /\ UNCHANGED <<store, subscribers, lock, rxClosed, task,
                   nEvents, brokerEnded, pollResult>>

\* The priming loop is over.
PrimingDoneEarly(c) == TRUE

PrimingDone(c) == call[c].contracts = << >>

DoInsert(c) ==
    /\ subscribers' = MapInsert(subscribers, call[c].id,
                                [contract_address |-> call[c].contract_address,
                                 sender |-> c])
    /\ call' = [call EXCEPT ![c].pc = "returned"]

\* Line 71-73: subscribers.write().await, insert, return the receiver.
Insert(c) ==
    /\ call[c].pc = "prime"
    /\ PrimingDone(c)
    /\ IF CanWrite
       THEN DoInsert(c) /\ UNCHANGED lock
       ELSE /\ lock' = Enqueue(Waiter("call", c))
            /\ call' = [call EXCEPT ![c].pc = "wwait"]
            /\ UNCHANGED subscribers
    /\ UNCHANGED <<store, sent, queued, rxClosed, task,
                   nEvents, brokerEnded, pollResult>>

InsertGranted(c) ==
    /\ call[c].pc = "wwait"
    /\ AtHead(Waiter("call", c))
    /\ lock.readers = {}
    /\ lock' = [lock EXCEPT !.waiters = Tail(@)]
    /\ DoInsert(c)
    /\ UNCHANGED <<store, sent, queued, rxClosed, task,
                   nEvents, brokerEnded, pollResult>>

\* ------------------------------------------------------------- the consumer
\* The caller of add_subscriber, holding the returned receiver.
Recv(c) ==
    /\ call[c].pc = "returned"
    /\ ~rxClosed[c]
    /\ queued[c] > 0
    /\ queued' = [queued EXCEPT ![c] = @ - 1]
    /\ UNCHANGED <<store, subscribers, lock, call, sent, rxClosed, task,
                   nEvents, brokerEnded, pollResult>>

DropReceiver(c) ==
    /\ call[c].pc = "returned"
    /\ ~rxClosed[c]
    /\ rxClosed' = [rxClosed EXCEPT ![c] = TRUE]
    /\ queued' = [queued EXCEPT ![c] = 0]
    /\ UNCHANGED <<store, subscribers, lock, call, sent, task,
                   nEvents, brokerEnded, pollResult>>


\* ------------------------------------------------------------ Service::poll
\* Every begun add_subscriber call has returned or failed, and every returned
\* receiver has been dropped.
AllDrained ==
    \A c \in Calls :
        /\ call[c].pc \in {"idle", "failed", "returned"}
        /\ call[c].pc = "returned" => rxClosed[c]

\* Lines 135-139: tokio::spawn hands the future to the runtime and returns at
\* once; poll awaits neither the new task nor any earlier one.
SpawnAwaitsFanOut == \A t \in Tasks : task[t].pc \in {"unspawned", "done"}

SpawnReady == TRUE

\* The calls past their store read (line 59) and not yet past line 71.
Inserting == {c \in Calls : call[c].pc \in {"prime", "wwait"}}

\* Those of them whose filter lets an event of contract felt through.
Racing(felt) ==
    IF felt = ParseErr THEN {}
    ELSE {c \in Inserting : call[c].contract_address \in {ZERO, felt}}

\* Lines 133-139: the stream yields Some(event); a publish_updates task is
\* spawned for it.  The loop ends on Pending and poll returns Pending.
Poll(s) ==
    /\ ~brokerEnded
    /\ nEvents < MaxEvents
    /\ SpawnReady
    /\ nEvents' = nEvents + 1
    /\ task' = [task EXCEPT ![nEvents + 1] =
                  [NoTask EXCEPT !.pc = "spawned",
                                 !.update = Event(nEvents + 1, s),
                                 !.drained = AllDrained,
                                 !.racing = Racing(FromStr(s))]]
    /\ pollResult' = "Pending"
    /\ UNCHANGED <<store, subscribers, lock, call, sent, queued, rxClosed,
                   brokerEnded>>

\* Lines 133, 142: the stream yields None; the `while let` ends and poll
\* returns Poll::Pending.
PollEnd ==
    /\ ~brokerEnded
    /\ brokerEnded' = TRUE
    /\ pollResult' = "Pending"
    /\ UNCHANGED <<store, subscribers, lock, call, sent, queued, rxClosed, task,
                   nEvents>>

\* ---------------------------------------------------------- publish_updates
\* Line 102: the subscriber is sent the update (the `continue` is not taken).
MatchesAny(filter, contract_address) == TRUE

MatchesExact(filter, contract_address) == filter = contract_address

Matches(filter, contract_address) ==
    ~(filter # ZERO /\ filter # contract_address)

\* Line 113: what Sender::send(..).await does on channel c now: it returns Err
\* when the receiver is gone, enqueues when there is capacity, and otherwise
\* waits for capacity.
TrySendOutcome(c) ==
    IF rxClosed[c] \/ queued[c] >= Capacity THEN "err" ELSE "ok"

SendOutcome(c) ==
    IF rxClosed[c] THEN "err"
    ELSE IF queued[c] < Capacity THEN "ok" ELSE "wait"

\* Line 113: Sender::send(..).await is an error exactly when the receiver is gone.
SendNeverFails(c) == FALSE

SendFails(c) == SendOutcome(c) = "err"

\* The send can complete: there is capacity, or the channel is closed.
SendReady(c) == SendOutcome(c) # "wait"

\* The task's record after the loop body for one entry, with the remaining
\* entries todo and the ids recorded so far; the read guard is dropped when the
\* loop ends.
Advance(t, todo, closed) ==
    [task[t] EXCEPT !.todo = todo, !.cur = NoId, !.closed_stream = closed,
                    !.pc = IF todo # {} THEN "iter"
                           ELSE IF closed # << >> THEN "remove" ELSE "done",
                    !.result = IF todo = {} /\ closed = << >> THEN "ok" ELSE @]

Release(t, todo) ==
    IF todo = {} THEN [lock EXCEPT !.readers = @ \ {t}] ELSE lock

\* Lines 106-115 for the entry under id, once the send can complete.
DeliverNothing(t, id) ==
    /\ task' = [task EXCEPT ![t] =
                  Advance(t, task[t].todo \ {id}, task[t].closed_stream)]
    /\ UNCHANGED <<sent, queued>>

Deliver(t, id) ==
    LET c == subscribers[id].sender
        todo == task[t].todo \ {id}
    IN  IF SendFails(c)
        THEN /\ task' = [task EXCEPT ![t] =
                           Advance(t, todo, Append(task[t].closed_stream, id))]
             /\ UNCHANGED <<sent, queued>>
        ELSE /\ sent' = [sent EXCEPT ![c] =
                           Append(@, [resp |-> Response(task[t].update,
                                                        task[t].contract_address),
                                      from |-> t])]
             /\ queued' = [queued EXCEPT ![c] = @ + 1]
             /\ task' = [task EXCEPT ![t] = Advance(t, todo, task[t].closed_stream)]

\* Line 101 with the read lock granted: the iteration starts over the registry
\* as it is now.
StartIter(t, felt) ==
    LET all == DOMAIN subscribers
        tk == [task[t] EXCEPT !.contract_address = felt,
                              !.dead = {c \in RegisteredCalls : rxClosed[c]},
                              !.racing = @ \cap Inserting]
    IN  IF all = {}
        THEN [tk EXCEPT !.pc = "done", !.result = "ok"]
        ELSE [tk EXCEPT !.pc = "iter", !.todo = all]

\* Lines 97-101: parse the address; on error return it (the spawned closure logs
\* it); otherwise ask for the read lock.
TaskStart(t) ==
    /\ task[t].pc = "spawned"
    /\ LET felt == FromStr(task[t].update.contract_address)
       IN  IF felt = ParseErr
           THEN /\ task' = [task EXCEPT ![t].pc = "done", ![t].result = "err"]
                /\ UNCHANGED lock
           ELSE IF CanRead
           THEN /\ task' = [task EXCEPT ![t] = StartIter(t, felt)]
                /\ lock' = IF DOMAIN subscribers = {} THEN lock
                           ELSE [lock EXCEPT !.readers = @ \cup {t}]
           ELSE /\ task' = [task EXCEPT ![t].pc = "rwait",
                                        ![t].contract_address = felt]
                /\ lock' = Enqueue(Waiter("task", t))
    /\ UNCHANGED <<store, subscribers, call, sent, queued, rxClosed,
                   nEvents, brokerEnded, pollResult>>

ReadGranted(t) ==
    /\ task[t].pc = "rwait"
    /\ AtHead(Waiter("task", t))
    /\ task' = [task EXCEPT ![t] = StartIter(t, task[t].contract_address)]
    /\ lock' = [readers |-> IF DOMAIN subscribers = {} THEN lock.readers
                            ELSE lock.readers \cup {t},
                waiters |-> Tail(lock.waiters)]
    /\ UNCHANGED <<store, subscribers, call, sent, queued, rxClosed,
                   nEvents, brokerEnded, pollResult>>

\* Lines 101-116: the next entry of the HashMap iteration (in an order the map
\* chooses): skipped when the filter does not match, sent to when the send can
\* complete, and otherwise the task waits in send for this entry.
TaskNext(t, id) ==
    /\ task[t].pc = "iter"
    /\ task[t].cur = NoId
    /\ id \in task[t].todo
    /\ LET sub == subscribers[id]
       IN  IF ~Matches(sub.contract_address, task[t].contract_address)
           THEN /\ task' = [task EXCEPT ![t] =
                              Advance(t, task[t].todo \ {id}, task[t].closed_stream)]
                /\ UNCHANGED <<sent, queued>>
           ELSE IF SendReady(sub.sender)
           THEN Deliver(t, id)
           ELSE /\ task' = [task EXCEPT ![t].cur = id]
                /\ UNCHANGED <<sent, queued>>
    /\ lock' = Release(t, task'[t].todo)
    /\ UNCHANGED <<store, subscribers, call, rxClosed,
                   nEvents, brokerEnded, pollResult>>

\* Line 113: a send that was waiting for capacity completes.
TaskSend(t) ==
    /\ task[t].pc = "iter"
    /\ task[t].cur # NoId
    /\ SendReady(subscribers[task[t].cur].sender)
    /\ Deliver(t, task[t].cur)
    /\ lock' = Release(t, task'[t].todo)
    /\ UNCHANGED <<store, subscribers, call, rxClosed,
                   nEvents, brokerEnded, pollResult>>

\* Lines 118-121, 76-78: remove_subscriber for the first recorded id.
DoRemove(t) ==
    LET rest == Tail(task[t].closed_stream)
    IN  /\ subscribers' = MapRemove(subscribers, Head(task[t].closed_stream))
        /\ task' = [task EXCEPT ![t].closed_stream = rest,
                                ![t].pc = IF rest = << >> THEN "done" ELSE "remove",
                                ![t].result = IF rest = << >> THEN "ok" ELSE @]

TaskRemove(t) ==
    /\ task[t].pc = "remove"
    /\ IF CanWrite
       THEN DoRemove(t) /\ UNCHANGED lock
       ELSE /\ lock' = Enqueue(Waiter("task", t))
            /\ task' = [task EXCEPT ![t].pc = "remwait"]
            /\ UNCHANGED subscribers
    /\ UNCHANGED <<store, call, sent, queued, rxClosed,
                   nEvents, brokerEnded, pollResult>>

RemoveGranted(t) ==
    /\ task[t].pc = "remwait"
    /\ AtHead(Waiter("task", t))
    /\ lock.readers = {}
    /\ lock' = [lock EXCEPT !.waiters = Tail(@)]
    /\ DoRemove(t)
    /\ UNCHANGED <<store, call, sent, queued, rxClosed,
                   nEvents, brokerEnded, pollResult>>

\* ------------------------------------------------------------ specification
CallStep(c) == PrimeSend(c) \/ Insert(c) \/ InsertGranted(c)

TaskStep(t) ==
    \/ TaskStart(t)
    \/ ReadGranted(t)
    \/ \E id \in Ids : TaskNext(t, id)
    \/ TaskSend(t)
    \/ TaskRemove(t)
    \/ RemoveGranted(t)

Next ==
    \/ \E c \in Calls, f \in Felts, id \in Ids : Subscribe(c, f, id)
    \/ \E c \in Calls, f \in Felts, id \in Ids : SubscribeStoreError(c, f, id)
    \/ \E c \in Calls : PrimeSend(c)
    \/ \E c \in Calls : Insert(c)
    \/ \E c \in Calls : InsertGranted(c)
    \/ \E c \in Calls : Recv(c)
    \/ \E c \in Calls : DropReceiver(c)
    \/ \E s \in EventAddrs : Poll(s)
    \/ PollEnd
    \/ \E t \in Tasks : TaskStart(t)
    \/ \E t \in Tasks : ReadGranted(t)
    \/ \E t \in Tasks, id \in Ids : TaskNext(t, id)
    \/ \E t \in Tasks : TaskSend(t)
    \/ \E t \in Tasks : TaskRemove(t)
    \/ \E t \in Tasks : RemoveGranted(t)

Spec == Init /\ [][Next]_vars


\* The runtime polls every task that can make progress, and a consumer that
\* holds a receiver keeps reading from it.
Fairness ==
    /\ \A c \in Calls : WF_vars(CallStep(c))
    /\ \A t \in Tasks : WF_vars(TaskStep(t))

\* The liveness specifications explore the table with one row, and leave out
\* the two steps that neither enqueue an item nor touch the registry or the
\* lock: the failed store read and the end of the broker stream.
LiveInit == Init /\ store = <<Row("0x1")>>

LiveNext ==
    \/ \E c \in Calls, f \in Felts, id \in Ids : Subscribe(c, f, id)
    \/ \E c \in Calls : PrimeSend(c)
    \/ \E c \in Calls : Insert(c)
    \/ \E c \in Calls : InsertGranted(c)
    \/ \E c \in Calls : Recv(c)
    \/ \E c \in Calls : DropReceiver(c)
    \/ \E s \in EventAddrs : Poll(s)
    \/ \E t \in Tasks : TaskStart(t)
    \/ \E t \in Tasks : ReadGranted(t)
    \/ \E t \in Tasks, id \in Ids : TaskNext(t, id)
    \/ \E t \in Tasks : TaskSend(t)
    \/ \E t \in Tasks : TaskRemove(t)
    \/ \E t \in Tasks : RemoveGranted(t)

FairSpec ==
    LiveInit /\ [][LiveNext]_vars /\ Fairness /\ \A c \in Calls : WF_vars(Recv(c))

\* As FairSpec, except that the consumer of one subscriber may hold its
\* receiver without ever reading from it.
SlowSub == CHOOSE c \in Calls : \A d \in Calls : c <= d

SlowSpec ==
    LiveInit /\ [][LiveNext]_vars /\ Fairness
             /\ \A c \in Calls \ {SlowSub} : WF_vars(Recv(c))

\* ------------------------------------------------------------------ claims
\* The items task t has enqueued on the channel of call c.
Got(t, c) == Cardinality({i \in DOMAIN sent[c] : sent[c][i].from = t})

\* Task t is walking a registry that holds c, c's filter is ZERO or the
\* event's contract, and c's receiver is not dropped.
Owed(t, c) ==
    /\ t \in lock.readers
    /\ Registered(c)
    /\ call[c].contract_address \in {ZERO, task[t].contract_address}
    /\ ~rxClosed[c]

\* C3  Filter completeness: with every consumer reading, each subscriber that is
\* registered when a fan-out reads the registry, matches the event and keeps
\* its receiver eventually has exactly one response for the event enqueued.
FilterCompleteness ==
    /\ \A t \in Tasks, c \in Calls : Owed(t, c) ~> (Got(t, c) = 1 \/ rxClosed[c])
    /\ [](\A t \in Tasks, c \in Calls : Got(t, c) <= 1)

\* C6  Backpressure isolation: although one consumer never reads, every other
\* matching subscriber still gets every event whose fan-out finds it registered.
BackpressureIsolation ==
    \A t \in Tasks, c \in Calls \ {SlowSub} :
        Owed(t, c) ~> (Got(t, c) = 1 \/ rxClosed[c])


\* The positions of the priming items and of the live updates in a channel.
Priming(c) == {i \in DOMAIN sent[c] : sent[c][i].from = 0}

Live(c) == {i \in DOMAIN sent[c] : sent[c][i].from # 0}

\* C1  Snapshot-before-live: on every channel each priming item precedes each
\* live update, and a live update is enqueued only after add_subscriber has
\* enqueued every row it read.
SnapshotBeforeLive ==
    \A c \in Calls :
        /\ \A i \in Priming(c), j \in Live(c) : i < j
        /\ Live(c) # {} =>
              /\ call[c].pc = "returned"
              /\ call[c].contracts = << >>
              /\ Cardinality(Priming(c)) = Len(Query(store, call[c].contract_address))

SnapshotThenLiveReached ==
    \E c \in Calls : Priming(c) # {} /\ Live(c) # {}

\* C2  Filter soundness: every item ever enqueued for a subscriber with a
\* filter other than ZERO carries the filter as its contract address.
FilterSoundness ==
    \A c \in Calls :
        call[c].contract_address # ZERO =>
            \A i \in DOMAIN sent[c] :
                sent[c][i].resp.contract_address = ToBytesBe(call[c].contract_address)

\* One event has been fanned out with a matching and a non-matching filtered
\* subscriber registered.
FilteredDeliveryReached ==
    \E t \in Tasks, c, d \in Calls :
        /\ task[t].pc = "done" /\ task[t].result = "ok"
        /\ call[c].contract_address = 1 /\ Priming(c) # {} /\ Got(t, c) = 1
        /\ call[d].contract_address = 2 /\ Registered(d) /\ ~rxClosed[d]

\* A fan-out has delivered to a registered wildcard subscriber and to a
\* filtered one and is done.
CompleteDeliveryReached ==
    \E t \in Tasks, c, d \in Calls :
        /\ task[t].pc = "done"
        /\ call[c].contract_address = ZERO /\ Got(t, c) = 1 /\ ~rxClosed[c]
        /\ call[d].contract_address = 1 /\ Got(t, d) = 1 /\ ~rxClosed[d]

\* Every subscriber's filter is ZERO or the contract of task t's event.
AllMatch(t) ==
    \A c \in Calls :
        call[c].pc = "returned" =>
            call[c].contract_address \in {ZERO, task[t].contract_address}

\* C4 as stated  No-leak: once the Subscribe calls have returned, their
\* consumers have dropped the receivers and a later fan-out of an event of any
\* contract has completed, the registry is empty.
NoLeakAnyContract ==
    \A t \in Tasks :
        (task[t].pc = "done" /\ task[t].result = "ok" /\ task[t].drained)
            => DOMAIN subscribers = {}

\* C4 amended  No-leak: as above for a later fan-out whose event's contract
\* matches every subscriber's filter.
NoLeakMatching ==
    \A t \in Tasks :
        (task[t].pc = "done" /\ task[t].result = "ok" /\ task[t].drained
            /\ AllMatch(t))
            => DOMAIN subscribers = {}

\* Two subscribers were registered with dropped receivers when the fan-out read
\* the registry, and it has emptied the registry.
NoLeakReached ==
    \E t \in Tasks :
        /\ task[t].pc = "done" /\ task[t].result = "ok" /\ task[t].drained
        /\ AllMatch(t)
        /\ Cardinality(task[t].dead) = 2
        /\ DOMAIN subscribers = {}

\* C5  Cleanup on consumer drop: a subscriber whose receiver was dropped before
\* a matching event's fan-out read the registry is unregistered and has got
\* nothing for the event once that fan-out is done; and the fan-out's removals
\* unregister no subscriber whose receiver is still held.
CleanupOnDrop ==
    /\ [](\A t \in Tasks, c \in Calls :
            (/\ task[t].pc = "done"
             /\ c \in task[t].dead
             /\ call[c].contract_address \in {ZERO, task[t].contract_address})
                => ~Registered(c) /\ Got(t, c) = 0)
    /\ [][\A t \in Tasks, c \in Calls :
            (/\ task[t].pc \in {"remove", "remwait"}
             /\ task'[t].closed_stream # task[t].closed_stream
             /\ Registered(c) /\ ~rxClosed[c])
                => Registered(c)']_vars

\* C7  Subscribe completes: a call whose store read succeeded never has to
\* wait for a consumer to read from its channel before it can go on to insert
\* and return.
SubscribeCompletes ==
    \A c \in Calls :
        (call[c].pc = "prime" /\ call[c].contracts # << >>) => queued[c] < Capacity

\* C8  Store error leaves no registration: the failing step changes neither
\* the registry nor any channel, and a failed call has no receiver, no item
\* and no registry entry.
StoreErrorNoRegistration ==
    /\ [][\A c \in Calls :
            (call[c].pc = "idle" /\ call'[c].pc = "failed")
                => subscribers' = subscribers /\ sent' = sent /\ lock' = lock]_vars
    /\ [](\A c \in Calls :
            call[c].pc = "failed"
                => ~Registered(c) /\ rxClosed[c] /\ sent[c] = << >>)

\* A store read has failed with a subscriber registered.
StoreErrorReached == call[2].pc = "failed" /\ Registered(1)

\* C9  Malformed broker event is discarded: the task of an event whose
\* address does not parse ends at once, changing neither the registry, the
\* lock nor any channel, and nobody ever gets an item for that event.
MalformedDiscarded ==
    /\ [][\A t \in Tasks :
            (/\ task[t].pc = "spawned"
             /\ task[t].update.contract_address = "not-hex"
             /\ task'[t].pc # "spawned")
                => /\ task'[t].pc = "done"
                   /\ subscribers' = subscribers
                   /\ lock' = lock
                   /\ sent' = sent
                   /\ queued' = queued]_vars
    /\ [](\A t \in Tasks, c \in Calls :
            task[t].update.contract_address = "not-hex" => Got(t, c) = 0)

\* A malformed event has been discarded while a subscriber with a dropped
\* receiver stays registered, and the next, valid event has been delivered.
MalformedThenValidReached ==
    \E c, d \in Calls :
        /\ task[1].update.contract_address = "not-hex" /\ task[1].pc = "done"
        /\ Registered(c) /\ rxClosed[c]
        /\ task[2].pc = "done" /\ Got(2, d) = 1

\* C10  Service termination: once the broker stream has ended, the Service
\* future has returned Ready or can still take a step.
ServiceTerminates ==
    brokerEnded =>
        \/ pollResult = "Ready"
        \/ ENABLED (PollEnd \/ \E s \in EventAddrs : Poll(s))

\* The priming items of a channel, in the order they were enqueued.
PrimingSeq(c) == SelectSeq(sent[c], LAMBDA m : m.from = 0)

\* The rows of the table a filter selects, in row order: every row for ZERO,
\* the rows whose key is the filter in hex otherwise.
Selected(F) ==
    SelectSeq(store, LAMBDA r : F = ZERO \/ r.id = FmtHex(F))

PrimingCarriesFilter ==
    \A c \in Calls :
        \A i \in DOMAIN sent[c] :
            LET m == sent[c][i]
            IN  IF m.from = 0
                THEN m.resp.contract_address = ToBytesBe(call[c].contract_address)
                ELSE /\ m.resp.contract_address
                         = ToBytesBe(FromStr(task[m.from].update.contract_address))
                     /\ m.resp.contract_address # ToBytesBe(ZERO)

\* A wildcard subscriber has a priming item for a row of contract 0x1,
\* carrying 32 zero bytes, and after it a live update for 0x1.
PrimingCarriesFilterReached ==
    \E c \in Calls :
        /\ call[c].contract_address = ZERO
        /\ Len(sent[c]) >= 2
        /\ sent[c][1].from = 0
        /\ sent[c][1].resp.head = Row("0x1").head
        /\ sent[c][1].resp.contract_address = [i \in 1..BytesLen |-> 0]
        /\ sent[c][2].from # 0
        /\ sent[c][2].resp.contract_address # sent[c][1].resp.contract_address

\* C13  Same-contract ordering: on every channel the live updates of one
\* contract are enqueued in the order the broker emitted their events, so
\* their head values do not decrease.
SameContractOrder ==
    \A c \in Calls :
        \A i, j \in Live(c) :
            (i < j /\ sent[c][i].resp.contract_address = sent[c][j].resp.contract_address)
                => /\ sent[c][i].from < sent[c][j].from
                   /\ sent[c][i].resp.head <= sent[c][j].resp.head

\* C14  remove is idempotent and local: removing an id from the registry
\* leaves no entry for it, changes nothing when there was none, gives the same
\* registry when done twice, and keeps every entry of another id; and each
\* removal a fan-out task performs changes the registry in just that way, also
\* when another task has recorded or already removed the same id.
RemoveIdempotentLocal ==
    /\ [](\A id \in Ids :
            LET m == MapRemove(subscribers, id)
            IN  /\ id \notin DOMAIN m
                /\ id \notin DOMAIN subscribers => m = subscribers
                /\ MapRemove(m, id) = m
                /\ \A j \in DOMAIN subscribers \ {id} :
                      j \in DOMAIN m /\ m[j] = subscribers[j])
    /\ [][\A t \in Tasks :
            (/\ task[t].pc \in {"remove", "remwait"}
             /\ Len(task'[t].closed_stream) < Len(task[t].closed_stream))
                => LET id == Head(task[t].closed_stream)
                   IN  /\ DOMAIN subscribers' = DOMAIN subscribers \ {id}
                       /\ \A j \in DOMAIN subscribers' :
                             subscribers'[j] = subscribers[j]]_vars

\* Two fan-outs both found the same subscriber registered with its receiver
\* dropped and matching their events, both have done their removals, and the
\* other subscriber is still registered.
RemoveTwiceReached ==
    \E c, d \in Calls :
        /\ task[1].pc = "done" /\ task[2].pc = "done"
        /\ c \in task[1].dead \cap task[2].dead
        /\ call[c].contract_address \in {ZERO, task[1].contract_address}
        /\ call[c].contract_address \in {ZERO, task[2].contract_address}
        /\ ~Registered(c)
        /\ d # c /\ Registered(d) /\ ~rxClosed[d]

\* C15  Event intake is never blocked by subscribers: while the broker has
\* another event, poll can take it and spawn its task, and a spawned task can
\* parse its address and ask for the registry lock, whatever the earlier
\* fan-outs are waiting for.
IntakeNeverBlocked ==
    /\ (~brokerEnded /\ nEvents < MaxEvents)
          => \A s \in EventAddrs : ENABLED Poll(s)
    /\ \A t \in Tasks : task[t].pc = "spawned" => ENABLED TaskStart(t)

\* The fan-out of event 1 waits for capacity on a full channel whose receiver
\* is held, and event 2 has been taken, parsed and is waiting for the lock.
IntakeWhileBlockedReached ==
    /\ task[1].pc = "iter" /\ task[1].cur \in DOMAIN subscribers
    /\ queued[subscribers[task[1].cur].sender] = Capacity
    /\ ~rxClosed[subscribers[task[1].cur].sender]
    /\ task[2].pc = "rwait" /\ task[2].contract_address # ParseErr

\* Task t takes up entry id of the registry in this step, the entry matches
\* the event, and its channel is full with the receiver still held.
VisitsFull(t, id) ==
    /\ task[t].pc = "iter" /\ task[t].cur = NoId
    /\ id \in task[t].todo
    /\ id \notin task'[t].todo \/ task'[t].cur = id
    /\ subscribers[id].contract_address \in {ZERO, task[t].contract_address}
    /\ queued[subscribers[id].sender] = Capacity
    /\ ~rxClosed[subscribers[id].sender]

\* C16 as stated  Channel-full is treated like channel-closed: a fan-out that
\* comes to a matching subscriber whose channel is full, the receiver still
\* held, gets a send failure and records the subscriber for removal.
FullTreatedAsClosed ==
    [][\A t \in Tasks, id \in Ids :
            VisitsFull(t, id)
                => /\ id \notin task'[t].todo
                   /\ task'[t].closed_stream = Append(task[t].closed_stream, id)]_vars

\* C16 amended  A full channel is not treated like a closed one: the fan-out
\* waits in the send, recording nothing and leaving the registry as it is,
\* and a subscriber is recorded for removal only when its receiver is dropped.
FullAwaitsCapacity ==
    /\ [][\A t \in Tasks, id \in Ids :
            VisitsFull(t, id)
                => /\ task'[t].cur = id /\ id \in task'[t].todo
                   /\ task'[t].closed_stream = task[t].closed_stream
                   /\ subscribers' = subscribers
                   /\ sent' = sent]_vars
    /\ [][\A t \in Tasks :
            Len(task'[t].closed_stream) > Len(task[t].closed_stream)
                => LET id == task'[t].closed_stream[Len(task'[t].closed_stream)]
                   IN  id \in DOMAIN subscribers /\ rxClosed[subscribers[id].sender]]_vars

\* A fan-out is waiting in the send to a registered subscriber whose channel
\* is full and whose receiver is held, with nothing recorded for removal.
FullAwaitsReached ==
    \E t \in Tasks :
        /\ task[t].cur \in DOMAIN subscribers
        /\ task[t].cur \in task[t].todo
        /\ task[t].closed_stream = << >>
        /\ queued[subscribers[task[t].cur].sender] = Capacity
        /\ ~rxClosed[subscribers[task[t].cur].sender]
        /\ Cardinality(Live(subscribers[task[t].cur].sender)) = 1

SubscribeNotBlocked ==
    /\ \A c \in Calls :
          call[c].pc \in {"prime", "wwait"} ~> call[c].pc = "returned"
    /\ \A t \in Tasks :
          task[t].pc \in {"remove", "remwait"} ~> task[t].pc = "done"

\* C19  Insert never replaces a registered subscriber: the insert of every
\* add_subscriber call is under an id the registry does not hold, makes the
\* registry one entry larger, and leaves every registered subscriber
\* registered.
InsertNeverReplaces ==
    [][\A c \in Calls :
          (call[c].pc \in {"prime", "wwait"} /\ call'[c].pc = "returned")
              => /\ call[c].id \notin DOMAIN subscribers
                 /\ Cardinality(DOMAIN subscribers')
                      = Cardinality(DOMAIN subscribers) + 1
                 /\ \A d \in Calls : Registered(d) => Registered(d)']_vars

====
